---- MODULE Spec2Model ----
(***************************************************************************)
(* A verification model of src/main.c: the sliding-tile puzzle program     *)
(* (grid model, move application, Manhattan heuristic, binary min-heap,    *)
(* chained visited table and the A* loop of solve_puzzle).                 *)
(*                                                                         *)
(* Conventions.  C arrays are functions on 0..len-1, so that the index     *)
(* arithmetic of the source (row = i / n, parent = (idx-1)/2) reads as in  *)
(* the source.  A Node pointer is the 1-based position of the node in the  *)
(* arena `nodes` (node_list_push appends every node in creation order);    *)
(* the NULL pointer is 0.  A uint64_t is the tuple of its 8 bytes, least     *)
(* significant first, so that the hash keeps its full width.               *)
(***************************************************************************)
EXTENDS Integers, Sequences, FiniteSets, TLC

VARIABLES
    n,              \* main: puzzle dimension read from ini.txt
    state,          \* main: the grid (int *state), a function on 0..n*n-1
    blank_index,    \* main: index of the blank
    pc,             \* position of the program
    nodes,          \* solve_puzzle: NodeList nodes (the arena)
    open_set,       \* solve_puzzle: MinHeap open_set (data[0..size-1])
    visited,        \* solve_puzzle: VisitedSet visited (bucket -> chain)
    goal_node,      \* solve_puzzle: Node *goal_node (0 = NULL)
    solution,       \* solve_puzzle: solution_moves[0..move_count-1]
    popped,         \* number of heap_pop calls made by the current run
    run,            \* how many times solve_puzzle was started on this grid
    prev_len,       \* move_count reported by the previous run, -1 if none
    trace,          \* apply_move calls made so far: what went in and out
    misplaced,      \* last value returned by count_misplaced, -1 if none
    goal_flag,      \* last value returned by is_goal ("true", "false"), "none" if none
    pops,           \* solve_puzzle: the nodes heap_pop returned, in order
    pruning,        \* whether the move loop skips the inverse of current->move
    ini_file,       \* ini.txt: the number on its first line and its values
    move_file,      \* move.txt: its lines, each a sequence of characters
    main_moves,     \* main: char *moves filled by read_moves
    move_index,     \* main: the loop index i over moves[]
    output,         \* what the program has printed
    exit_code       \* main's return value, "none" while it runs

ioVars == <<ini_file, move_file, main_moves, move_index, output, exit_code>>

vars == <<n, state, blank_index, pc, nodes, open_set, visited, goal_node, solution,
          popped, run, prev_len, trace, misplaced, goal_flag, pops, pruning,
          ini_file, move_file, main_moves, move_index, output, exit_code>>

(***************************************************************************)
(* Bounds of the model.                                                    *)
(***************************************************************************)
\* Start grids of the search are all grids within MaxScramble moves of GoalLayout.
MaxScramble == 8
\* Number of apply_move calls in one behaviour of SpecMove.
MaxMoves == 3
\* Number of cells in which an arbitrary array may differ from GoalLayout.
MaxEdits == 3
\* solve_puzzle is started at most MaxRuns times on the same grid.
MaxRuns == 2
\* The hard ceiling of IDASearch's bound (the specification names no value).
MaxBound == 31

\* Largest dimension on the first line of ini.txt, largest distance from
\* GoalLayout of the grid in it, and largest number of lines of move.txt.
\* Calls made on a visited table, and the largest g passed to them.
MaxVisits == 4
MaxG == 2

\* Nodes pushed on a heap studied on its own.
MaxHeapNodes == 4

MaxIniDim == 2
MaxIniScramble == 2
MaxLines == 3
\* Puzzle dimensions.
Dims == {2, 3}
\* Dimensions small enough to search a whole unsolvable component.
FullDims == {2}

(***************************************************************************)
(* C integer arithmetic.                                                   *)
(***************************************************************************)
\* C's `/` and `%` on int truncate toward zero.
CDiv(a, b) == IF a >= 0 THEN a \div b ELSE -((-a) \div b)
CMod(a, b) == a - b * CDiv(a, b)
\* abs() of stdlib.
abs(x) == IF x < 0 THEN -x ELSE x

\* x ^ y on two bytes, bit by bit.
ByteXor(x, y) ==
      ((x + y) % 2)
    + ((x \div 2 + y \div 2) % 2) * 2
    + ((x \div 4 + y \div 4) % 2) * 4
    + ((x \div 8 + y \div 8) % 2) * 8
    + ((x \div 16 + y \div 16) % 2) * 16
    + ((x \div 32 + y \div 32) % 2) * 32
    + ((x \div 64 + y \div 64) % 2) * 64
    + ((x \div 128 + y \div 128) % 2) * 128

\* A uint64_t is the tuple of its 8 bytes, least significant first.
\* (uint64_t)v for a non-negative int v.
U64(v) ==
    <<v % 256, (v \div 256) % 256, (v \div 65536) % 256, (v \div 16777216) % 256,
      0, 0, 0, 0>>
\* a + b on uint64_t (wraps modulo 2^64): byte sums with carry.
U64Add(a, b) ==
    LET s1 == a[1] + b[1]
        s2 == a[2] + b[2] + (s1 \div 256)
        s3 == a[3] + b[3] + (s2 \div 256)
        s4 == a[4] + b[4] + (s3 \div 256)
        s5 == a[5] + b[5] + (s4 \div 256)
        s6 == a[6] + b[6] + (s5 \div 256)
        s7 == a[7] + b[7] + (s6 \div 256)
        s8 == a[8] + b[8] + (s7 \div 256)
    IN <<s1 % 256, s2 % 256, s3 % 256, s4 % 256, s5 % 256, s6 % 256, s7 % 256, s8 % 256>>
\* a ^ b on uint64_t.
U64Xor(a, b) ==
    <<ByteXor(a[1], b[1]), ByteXor(a[2], b[2]), ByteXor(a[3], b[3]),
      ByteXor(a[4], b[4]), ByteXor(a[5], b[5]), ByteXor(a[6], b[6]),
      ByteXor(a[7], b[7]), ByteXor(a[8], b[8])>>
\* a << 6 on uint64_t.
U64Shl6(a) ==
    <<(a[1] * 64) % 256,
      ((a[2] * 64) % 256) + (a[1] \div 4),
      ((a[3] * 64) % 256) + (a[2] \div 4),
      ((a[4] * 64) % 256) + (a[3] \div 4),
      ((a[5] * 64) % 256) + (a[4] \div 4),
      ((a[6] * 64) % 256) + (a[5] \div 4),
      ((a[7] * 64) % 256) + (a[6] \div 4),
      ((a[8] * 64) % 256) + (a[7] \div 4)>>
\* a >> 2 on uint64_t.
U64Shr2(a) ==
    <<(a[1] \div 4) + ((a[2] % 4) * 64),
      (a[2] \div 4) + ((a[3] % 4) * 64),
      (a[3] \div 4) + ((a[4] % 4) * 64),
      (a[4] \div 4) + ((a[5] % 4) * 64),
      (a[5] \div 4) + ((a[6] % 4) * 64),
      (a[6] \div 4) + ((a[7] % 4) * 64),
      (a[7] \div 4) + ((a[8] % 4) * 64),
      a[8] \div 4>>
\* a * b on uint64_t (wraps modulo 2^64): schoolbook columns with carry.
U64Mul(a, b) ==
    LET c1 == (a[1] * b[1])
        c2 == (a[1] * b[2]) + (a[2] * b[1]) + (c1 \div 256)
        c3 == (a[1] * b[3]) + (a[2] * b[2]) + (a[3] * b[1]) + (c2 \div 256)
        c4 == (a[1] * b[4]) + (a[2] * b[3]) + (a[3] * b[2]) + (a[4] * b[1]) + (c3 \div 256)
        c5 == (a[1] * b[5]) + (a[2] * b[4]) + (a[3] * b[3]) + (a[4] * b[2]) + (a[5] * b[1]) + (c4 \div 256)
        c6 == (a[1] * b[6]) + (a[2] * b[5]) + (a[3] * b[4]) + (a[4] * b[3]) + (a[5] * b[2]) + (a[6] * b[1]) + (c5 \div 256)
        c7 == (a[1] * b[7]) + (a[2] * b[6]) + (a[3] * b[5]) + (a[4] * b[4]) + (a[5] * b[3]) + (a[6] * b[2]) + (a[7] * b[1]) + (c6 \div 256)
        c8 == (a[1] * b[8]) + (a[2] * b[7]) + (a[3] * b[6]) + (a[4] * b[5]) + (a[5] * b[4]) + (a[6] * b[3]) + (a[7] * b[2]) + (a[8] * b[1]) + (c7 \div 256)
    IN <<c1 % 256, c2 % 256, c3 % 256, c4 % 256, c5 % 256, c6 % 256, c7 % 256, c8 % 256>>
\* a % m for a uint64_t a and a modulus m below 2^23.
RECURSIVE U64ModFrom(_, _, _, _)
U64ModFrom(a, m, i, r) == IF i = 0 THEN r ELSE U64ModFrom(a, m, i - 1, (r * 256 + a[i]) % m)
U64Mod(a, m) == U64ModFrom(a, m, 8, 0)

\* 1469598103934665603ULL, 0x9e3779b97f4a7c15ULL and 1099511628211ULL.
HashSeed == <<131, 3, 157, 115, 176, 15, 101, 20>>
HashGolden == <<21, 124, 74, 127, 185, 121, 55, 158>>
HashPrime == <<179, 1, 0, 0, 0, 1, 0, 0>>

\* One pass of the body of the loop of fnv1a_hash on the cell value v.
fnv1a_step(hash, v) ==
    LET value == U64(v + 2)
        mix == U64Add(U64Add(U64Add(value, HashGolden), U64Shl6(hash)), U64Shr2(hash))
    IN U64Mul(U64Xor(hash, mix), HashPrime)

\* The loop of fnv1a_hash from index i on, with `hash` so far.  (hash = <<>>
\* never holds: the test makes TLC compute hash before the next pass rather
\* than carry a chain of suspended computations.)
RECURSIVE fnv1a_loop(_, _, _, _)
fnv1a_loop(st, len, i, hash) ==
    IF i >= len \/ hash = <<>> THEN hash
    ELSE fnv1a_loop(st, len, i + 1, fnv1a_step(hash, st[i]))

fnv1a_hash(st, len) == fnv1a_loop(st, len, 0, HashSeed)

\* memcmp over len ints.
states_equal(a, b, len) == \A i \in 0..(len - 1) : a[i] = b[i]

(***************************************************************************)
(* The grid: goal test, misplaced count, heuristic, moves.                 *)
(***************************************************************************)
\* Mutant of count_misplaced: the last cell is tested like every other cell.
count_misplaced_last_as_tile(st, len) ==
    LET f[i \in 0..len] ==
            IF i = len THEN 0
            ELSE (IF st[i] = -1
                  THEN (IF i # len - 1 THEN 1 ELSE 0)
                  ELSE IF st[i] # i THEN 1 ELSE 0) + f[i + 1]
    IN f[0]

count_misplaced(st, len) ==
    LET f[i \in 0..len] ==
            IF i = len THEN 0
            ELSE (IF st[i] = -1
                  THEN (IF i # len - 1 THEN 1 ELSE 0)
                  ELSE IF i = len - 1 THEN 1
                  ELSE IF st[i] # i THEN 1 ELSE 0) + f[i + 1]
    IN f[0]

\* Mutant of manhattan_distance: the column term is left out.
manhattan_distance_rows_only(st, m) ==
    LET len == m * m
        f[idx \in 0..len] ==
            IF idx = len THEN 0
            ELSE LET value == st[idx]
                 IN IF value = -1 THEN f[idx + 1]
                    ELSE abs(CDiv(value, m) - (idx \div m)) + f[idx + 1]
    IN f[0]

\* Mutant of manhattan_distance: the blank is not skipped but measured like a
\* tile (C's -1 / n is 0 and -1 % n is -1).
manhattan_distance_with_blank(st, m) ==
    LET len == m * m
        f[idx \in 0..len] ==
            IF idx = len THEN 0
            ELSE LET value == st[idx]
                     goal_row == CDiv(value, m)
                     goal_col == CMod(value, m)
                     cur_row == idx \div m
                     cur_col == idx % m
                 IN abs(goal_row - cur_row) + abs(goal_col - cur_col) + f[idx + 1]
    IN f[0]

manhattan_distance(st, m) ==
    LET len == m * m
        f[idx \in 0..len] ==
            IF idx = len THEN 0
            ELSE LET value == st[idx]
                 IN IF value = -1 THEN f[idx + 1]
                    ELSE LET goal_row == CDiv(value, m)
                             goal_col == CMod(value, m)
                             cur_row == idx \div m
                             cur_col == idx % m
                         IN abs(goal_row - cur_row) + abs(goal_col - cur_col)
                            + f[idx + 1]
    IN f[0]

\* Mutant of is_goal: only the blank's place is tested.
is_goal_blank_only(st, len) == st[len - 1] = -1

is_goal(st, len) ==
    /\ \A i \in 0..(len - 2) : st[i] = i
    /\ st[len - 1] = -1

Moves == <<"U", "D", "L", "R">>
MoveSet == {"U", "D", "L", "R"}
\* '\0', the move of the root node and the result of opposite_move's default.
NUL == "NUL"

\* Mutant of opposite_move: Up and Down are not exchanged.
opposite_move_ud_kept(move) ==
    CASE move = "U" -> "U"
      [] move = "D" -> "D"
      [] move = "L" -> "R"
      [] move = "R" -> "L"
      [] OTHER -> NUL

\* Mutant of opposite_move: Left and Right are not exchanged.
opposite_move_lr_kept(move) ==
    CASE move = "U" -> "D"
      [] move = "D" -> "U"
      [] move = "L" -> "L"
      [] move = "R" -> "R"
      [] OTHER -> NUL

opposite_move(move) ==
    CASE move = "U" -> "D"
      [] move = "D" -> "U"
      [] move = "L" -> "R"
      [] move = "R" -> "L"
      [] OTHER -> NUL

\* Mutant of apply_move: only the target index is tested against the array,
\* so a move across a row edge wraps into the neighbouring row.
apply_move_index_test(st, m, blank, move) ==
    LET row == blank \div m
        col == blank % m
        new_row == CASE move = "U" -> row - 1
                     [] move = "D" -> row + 1
                     [] OTHER -> row
        new_col == CASE move = "L" -> col - 1
                     [] move = "R" -> col + 1
                     [] OTHER -> col
        new_index == new_row * m + new_col
    IN IF move \notin MoveSet \/ new_index < 0 \/ new_index >= m * m
       THEN [ok |-> FALSE, state |-> st, blank_index |-> blank]
       ELSE [ok |-> TRUE,
             state |-> [[st EXCEPT ![new_index] = -1] EXCEPT ![blank] = st[new_index]],
             blank_index |-> new_index]

\* Mutant of apply_move: *blank_index is not updated after the swap.
apply_move_blank_kept(st, m, blank, move) ==
    LET row == blank \div m
        col == blank % m
        new_row == CASE move = "U" -> row - 1
                     [] move = "D" -> row + 1
                     [] OTHER -> row
        new_col == CASE move = "L" -> col - 1
                     [] move = "R" -> col + 1
                     [] OTHER -> col
        new_index == new_row * m + new_col
    IN IF move \notin MoveSet \/ new_row < 0 \/ new_row >= m \/ new_col < 0 \/ new_col >= m
       THEN [ok |-> FALSE, state |-> st, blank_index |-> blank]
       ELSE [ok |-> TRUE,
             state |-> [[st EXCEPT ![new_index] = -1] EXCEPT ![blank] = st[new_index]],
             blank_index |-> blank]

\* apply_move(state, n, &blank_index, move): the returned bool, and the
\* state and blank_index it leaves behind.
apply_move(st, m, blank, move) ==
    LET row == blank \div m
        col == blank % m
        new_row == CASE move = "U" -> row - 1
                     [] move = "D" -> row + 1
                     [] OTHER -> row
        new_col == CASE move = "L" -> col - 1
                     [] move = "R" -> col + 1
                     [] OTHER -> col
        new_index == new_row * m + new_col
    IN IF move \notin MoveSet
       THEN [ok |-> FALSE, state |-> st, blank_index |-> blank]
       ELSE IF new_row < 0 \/ new_row >= m \/ new_col < 0 \/ new_col >= m
       THEN [ok |-> FALSE, state |-> st, blank_index |-> blank]
       ELSE LET temp == st[new_index]
                s1 == [st EXCEPT ![new_index] = -1]
                s2 == [s1 EXCEPT ![blank] = temp]
            IN [ok |-> TRUE, state |-> s2, blank_index |-> new_index]

(***************************************************************************)
(* PriorityFrontier: the binary min-heap of Node pointers.  data[i] of the *)
(* source is data[i + 1] here.  Growing the array (realloc) changes no     *)
(* observable value and is left out.                                       *)
(***************************************************************************)
\* Mutant of node_priority: the path cost g is left out of the priority.
node_priority_h_only(node) == node.h

node_priority(node) == node.g + node.h

\* Mutant of heap_before: the comparison of the priorities turned around.
heap_before_max(a, b) ==
    LET a_priority == node_priority(a)
        b_priority == node_priority(b)
    IN a_priority > b_priority \/ (a_priority = b_priority /\ a.h < b.h)

\* The ordering test of heap_push and heap_pop: a goes above b.
heap_before(a, b) ==
    LET a_priority == node_priority(a)
        b_priority == node_priority(b)
    IN a_priority < b_priority \/ (a_priority = b_priority /\ a.h < b.h)

heap_swap(data, i, j) == [data EXCEPT ![i + 1] = data[j + 1], ![j + 1] = data[i + 1]]

\* Mutant of sift_up: the pushed node stays in the last slot.
sift_up_skipped(data, idx, ns) == data

\* The while (idx > 0) loop of heap_push.
RECURSIVE sift_up(_, _, _)
sift_up(data, idx, ns) ==
    IF idx > 0
    THEN LET parent == (idx - 1) \div 2
         IN IF heap_before(ns[data[idx + 1]], ns[data[parent + 1]])
            THEN sift_up(heap_swap(data, idx, parent), parent, ns)
            ELSE data
    ELSE data

heap_push(data, node, ns) == sift_up(Append(data, node), Len(data), ns)

\* Mutant of sift_down: the right child is never looked at.
RECURSIVE sift_down_left_only(_, _, _, _)
sift_down_left_only(data, size, idx, ns) ==
    LET left == idx * 2 + 1
        smallest == IF left < size /\ heap_before(ns[data[left + 1]], ns[data[idx + 1]])
                    THEN left ELSE idx
    IN IF smallest # idx
       THEN sift_down_left_only(heap_swap(data, idx, smallest), size, smallest, ns)
       ELSE data

\* The while (true) loop of heap_pop.
RECURSIVE sift_down(_, _, _, _)
sift_down(data, size, idx, ns) ==
    LET left == idx * 2 + 1
        right == idx * 2 + 2
        s1 == IF left < size /\ heap_before(ns[data[left + 1]], ns[data[idx + 1]])
              THEN left ELSE idx
        smallest == IF right < size /\ heap_before(ns[data[right + 1]], ns[data[s1 + 1]])
                    THEN right ELSE s1
    IN IF smallest # idx
       THEN sift_down(heap_swap(data, idx, smallest), size, smallest, ns)
       ELSE data

\* heap_pop: the returned pointer (0 = NULL) and the heap left behind.
heap_pop(data, ns) ==
    IF Len(data) = 0 THEN [top |-> 0, data |-> data]
    ELSE LET top == data[1]
             size == Len(data) - 1
         IN IF size > 0
            THEN [top |-> top,
                  data |-> sift_down([SubSeq(data, 1, size) EXCEPT ![1] = data[size + 1]],
                                     size, 0, ns)]
            ELSE [top |-> top, data |-> <<>>]

(***************************************************************************)
(* VisitedTable: buckets of chains, newest entry first.  An entry's state  *)
(* pointer aliases its node's state, which is never written after          *)
(* create_node, so the entry holds the grid itself.                        *)
(***************************************************************************)
\* The bucket count solve_puzzle passes to visited_init.
VisitedBuckets == 1048576

\* calloc leaves every bucket NULL: only non-empty buckets are in `buckets`.
visited_init(bucket_count) == [bucket_count |-> bucket_count, buckets |-> <<>>]

bucket_chain(set, idx) == IF idx \in DOMAIN set.buckets THEN set.buckets[idx] ELSE <<>>

\* Mutant of visited_should_skip: an entry matches on its hash alone.
visited_should_skip_hash_only(set, hash, st, len, g) ==
    LET idx == U64Mod(hash, set.bucket_count)
        chain == bucket_chain(set, idx)
        hits == {k \in 1..Len(chain) : chain[k].hash = hash}
    IN IF hits = {} THEN [skip |-> FALSE, set |-> set]
       ELSE LET k == CHOOSE x \in hits : \A y \in hits : x <= y
            IN IF g >= chain[k].g
               THEN [skip |-> TRUE, set |-> set]
               ELSE [skip |-> FALSE,
                     set |-> [set EXCEPT !.buckets[idx][k].g = g]]

\* visited_should_skip: the returned bool and the table left behind.
visited_should_skip(set, hash, st, len, g) ==
    LET idx == U64Mod(hash, set.bucket_count)
        chain == bucket_chain(set, idx)
        hits == {k \in 1..Len(chain) :
                    chain[k].hash = hash /\ states_equal(chain[k].state, st, len)}
    IN IF hits = {} THEN [skip |-> FALSE, set |-> set]
       ELSE LET k == CHOOSE x \in hits : \A y \in hits : x <= y
            IN IF g >= chain[k].g
               THEN [skip |-> TRUE, set |-> set]
               ELSE [skip |-> FALSE,
                     set |-> [set EXCEPT !.buckets[idx][k].g = g]]

visited_add(set, hash, st, len, g) ==
    LET idx == U64Mod(hash, set.bucket_count)
        entry == [hash |-> hash, g |-> g, state |-> st]
    IN [set EXCEPT !.buckets = (idx :> (<<entry>> \o bucket_chain(set, idx))) @@ set.buckets]

(***************************************************************************)
(* AStarSearch: nodes, reconstruction and the loop of solve_puzzle.        *)
(***************************************************************************)
\* Mutant of create_node: g and h are stored in each other's field.
create_node_swapped(st, len, blank, g, h, parent, move) ==
    [state |-> st, blank_index |-> blank, g |-> h, h |-> g,
     parent |-> parent, move |-> move]

create_node(st, len, blank, g, h, parent, move) ==
    [state |-> st, blank_index |-> blank, g |-> g, h |-> h,
     parent |-> parent, move |-> move]

\* while (current->parent) { moves[idx++] = current->move; ... }
RECURSIVE collect_moves(_, _)
collect_moves(current, ns) ==
    IF ns[current].parent # 0
    THEN <<ns[current].move>> \o collect_moves(ns[current].parent, ns)
    ELSE <<>>

\* Mutant of reverse_moves: the collected moves are left in goal-to-start order.
reverse_moves_skipped(moves, i) == moves

\* for (i = 0; i < idx / 2; i++) swap moves[i] and moves[idx - 1 - i]
RECURSIVE reverse_moves(_, _)
reverse_moves(moves, i) ==
    LET idx == Len(moves)
    IN IF i < idx \div 2
       THEN reverse_moves([moves EXCEPT ![i + 1] = moves[idx - i],
                                        ![idx - i] = moves[i + 1]], i + 1)
       ELSE moves

reconstruct_moves(goal, ns) == reverse_moves(collect_moves(goal, ns), 0)

\* One pass of the body of the for loop over moves[i] in solve_puzzle, on
\* the search state s = [nodes, open_set, visited].  The program is the case
\* pruning = TRUE; with pruning = FALSE the test of opposite_move is left out.
expand_move(s, current, m, move) ==
    LET cur == s.nodes[current]
        len == m * m
        r == apply_move(cur.state, m, cur.blank_index, move)
        g == cur.g + 1
        hash == fnv1a_hash(r.state, len)
        v == visited_should_skip(s.visited, hash, r.state, len, g)
        h == manhattan_distance(r.state, m)
        child == create_node(r.state, len, r.blank_index, g, h, current, move)
        id == Len(s.nodes) + 1
        ns == Append(s.nodes, child)
    IN IF pruning /\ cur.parent # 0 /\ move = opposite_move(cur.move) THEN s
       ELSE IF ~r.ok THEN s
       ELSE IF v.skip THEN [s EXCEPT !.visited = v.set]
       ELSE [nodes |-> ns,
             open_set |-> heap_push(s.open_set, id, ns),
             visited |-> visited_add(v.set, hash, child.state, len, g)]

\* for (int i = 0; i < 4; i++) over moves[4] = {'U', 'D', 'L', 'R'}
RECURSIVE expand_from(_, _, _, _)
expand_from(s, current, m, i) ==
    IF i < 4 THEN expand_from(expand_move(s, current, m, Moves[i + 1]), current, m, i + 1)
    ELSE s

(***************************************************************************)
(* Grids the program is started on.                                        *)
(***************************************************************************)
GoalLayout(m) == [i \in 0..(m * m - 1) |-> IF i = m * m - 1 THEN -1 ELSE i]

\* Well-formed grids: every tile 0..n*n-2 once and one blank.
ValidGrids(m) ==
    {f \in [0..(m * m - 1) -> -1..(m * m - 2)] :
        \A i, j \in 0..(m * m - 1) : f[i] = f[j] => i = j}

\* The blank read_ini reports: the last cell holding -1.
LastBlank(st) == CHOOSE i \in DOMAIN st : st[i] = -1 /\ \A j \in DOMAIN st : st[j] = -1 => j <= i

\* Grids one legal move away from st.
Neighbours(st, m) ==
    {apply_move(st, m, LastBlank(st), mv).state :
        mv \in {x \in MoveSet : apply_move(st, m, LastBlank(st), x).ok}}

\* Breadth-first layers around GoalLayout: layers[d + 1] holds the grids whose
\* shortest move sequence to (and from) GoalLayout has d moves.
RECURSIVE Spheres(_, _, _)
Spheres(m, layers, depth) ==
    LET last == layers[Len(layers)]
        seen == UNION {layers[k] : k \in 1..Len(layers)}
        next == (UNION {Neighbours(g, m) : g \in last}) \ seen
    IN IF next = {} \/ (depth >= 0 /\ Len(layers) > depth) THEN layers
       ELSE Spheres(m, Append(layers, next), depth)

MaxDim == CHOOSE m \in Dims : \A k \in Dims : k <= m
RECURSIVE LayersUpTo(_)
LayersUpTo(m) ==
    IF m = 0 THEN <<>>
    ELSE Append(LayersUpTo(m - 1),
                IF m \in Dims
                THEN Spheres(m, <<{GoalLayout(m)}>>, IF m \in FullDims THEN -1 ELSE MaxScramble)
                ELSE <<>>)
Layers == LayersUpTo(MaxDim)

\* Balls[m]: every grid of dimension m in some layer.
RECURSIVE BallsFrom(_)
BallsFrom(m) ==
    IF m > Len(Layers) THEN <<>>
    ELSE <<UNION {Layers[m][k] : k \in 1..Len(Layers[m])}>> \o BallsFrom(m + 1)
Balls == BallsFrom(1)
Ball(m) == Balls[m]
Solvable(m, st) == st \in Ball(m)
\* The true shortest-path distance of a grid of the ball to GoalLayout.
TrueDist(m, st) == (CHOOSE k \in 1..Len(Layers[m]) : st \in Layers[m][k]) - 1

StartGrids(m) == Ball(m) \cup (IF m \in FullDims THEN ValidGrids(m) ELSE {})

(***************************************************************************)
(* The parts of the specification that have no code under src/: the        *)
(* solvability parity test of section 4.1 and IDASearch of section 4.2.    *)
(***************************************************************************)
\* Number of pairs of tiles (the blank left out) that stand in the wrong order.
inversions(st, len) ==
    Cardinality({p \in (0..(len - 1)) \X (0..(len - 1)) :
                    /\ p[1] < p[2]
                    /\ st[p[1]] # -1
                    /\ st[p[2]] # -1
                    /\ st[p[1]] > st[p[2]]})

\* Odd n: solvable iff the inversion count is even.  Even n: solvable iff
\* (inversions odd) differs from (the blank's row counted from the bottom,
\* the bottom row being row 1, is odd).
solvability(st, m, blank) ==
    LET inv_odd == inversions(st, m * m) % 2 = 1
        row_from_bottom == m - (blank \div m)
    IN IF m % 2 = 1 THEN ~inv_odd
       ELSE inv_odd # (row_from_bottom % 2 = 1)

\* The success sentinel of the depth-first pass, distinct from every bound.
IDA_FOUND == -1

SetMin(S) == CHOOSE x \in S : \A y \in S : x <= y

\* One depth-first pass at depth g under the bound: IDA_FOUND, or the smallest
\* f that went over the bound.
RECURSIVE ida_search(_, _, _, _, _, _)
ida_search(st, m, blank, g, bound, prev) ==
    LET f == g + manhattan_distance(st, m)
    IN IF f > bound THEN f
       ELSE IF is_goal(st, m * m) THEN IDA_FOUND
       ELSE LET tried == {mv \in MoveSet :
                             mv # opposite_move(prev) /\ apply_move(st, m, blank, mv).ok}
                below == {ida_search(apply_move(st, m, blank, mv).state, m,
                                     apply_move(st, m, blank, mv).blank_index,
                                     g + 1, bound, mv) : mv \in tried}
            IN IF IDA_FOUND \in below THEN IDA_FOUND ELSE SetMin(below)

\* The passes with increasing bound: the length of the sequence returned (the
\* final bound), or -1 once the bound exceeds the ceiling.
RECURSIVE ida_passes(_, _, _, _)
ida_passes(st, m, blank, bound) ==
    IF bound > MaxBound THEN -1
    ELSE LET t == ida_search(st, m, blank, 0, bound, NUL)
         IN IF t = IDA_FOUND THEN bound ELSE ida_passes(st, m, blank, t)

IDASearch(st, m, blank) == ida_passes(st, m, blank, manhattan_distance(st, m))

(***************************************************************************)
(* The program in solving mode: main calls solve_puzzle.                   *)
(***************************************************************************)
\* A file that fopen cannot open.
NoFile == [exists |-> FALSE, lines |-> <<>>]

\* ini.txt holding dimension m and the cells of st; move.txt empty or missing.
IniOf(m, st) == [n |-> m, values |-> [i \in 1..(m * m) |-> st[i - 1]]]

FilesRead(m, st) ==
    /\ ini_file = IniOf(m, st)
    /\ move_file = NoFile
    /\ main_moves = <<>>
    /\ move_index = 0
    /\ output = <<>>
    /\ exit_code = "none"

Init ==
    /\ n \in Dims
    /\ state \in StartGrids(n)
    /\ blank_index = LastBlank(state)
    /\ pc = "main"
    /\ nodes = <<>>
    /\ open_set = <<>>
    /\ visited = visited_init(0)
    /\ goal_node = 0
    /\ solution = <<>>
    /\ popped = 0
    /\ run = 0
    /\ prev_len = -1
    /\ trace = <<>>
    /\ misplaced = -1
    /\ goal_flag = "none"
    /\ pops = <<>>
    /\ pruning = TRUE
    /\ FilesRead(n, state)

\* main's call of solve_puzzle and solve_puzzle up to its loop.
SolveStart ==
    /\ pc = "main"
    /\ LET len == n * n
           start_h == manhattan_distance(state, n)
           start_node == create_node(state, len, blank_index, 0, start_h, 0, NUL)
       IN /\ nodes' = <<start_node>>
          /\ open_set' = heap_push(<<>>, 1, nodes')
          /\ visited' = visited_add(visited_init(VisitedBuckets), fnv1a_hash(state, len),
                                    start_node.state, len, 0)
          /\ misplaced' = count_misplaced(state, len)
    /\ goal_node' = 0
    /\ solution' = <<>>
    /\ popped' = 0
    /\ run' = run + 1
    /\ pc' = "search"
    /\ UNCHANGED <<n, state, blank_index, prev_len, trace, goal_flag>>
    /\ pops' = <<>>
    /\ UNCHANGED <<pruning, ioVars>>

\* One iteration of the while loop whose popped node is not the goal.
Expand ==
    /\ pc = "search"
    /\ Len(open_set) > 0
    /\ LET p == heap_pop(open_set, nodes)
           s == expand_from([nodes |-> nodes, open_set |-> p.data, visited |-> visited],
                            p.top, n, 0)
       IN /\ ~is_goal(nodes[p.top].state, n * n)
          /\ pops' = Append(pops, p.top)
          /\ nodes' = s.nodes
          /\ open_set' = s.open_set
          /\ visited' = s.visited
    /\ popped' = popped + 1
    /\ goal_flag' = "false"
    /\ UNCHANGED <<n, state, blank_index, pc, goal_node, solution, run, prev_len,
                   trace, misplaced>>
    /\ UNCHANGED <<pruning, ioVars>>

\* The iteration that pops the goal, and the report after the loop.
FoundGoal ==
    /\ pc = "search"
    /\ Len(open_set) > 0
    /\ LET p == heap_pop(open_set, nodes)
       IN /\ is_goal(nodes[p.top].state, n * n)
          /\ pops' = Append(pops, p.top)
          /\ open_set' = p.data
          /\ goal_node' = p.top
          /\ solution' = reconstruct_moves(p.top, nodes)
          /\ misplaced' = count_misplaced(nodes[p.top].state, n * n)
    /\ popped' = popped + 1
    /\ goal_flag' = "true"
    /\ pc' = "solved"
    /\ UNCHANGED <<n, state, blank_index, nodes, visited, run, prev_len, trace>>
    /\ UNCHANGED <<pruning, ioVars>>

\* The loop ends on an empty frontier: "No solution found."
NoSolution ==
    /\ pc = "search"
    /\ Len(open_set) = 0
    /\ pc' = "nosolution"
    /\ UNCHANGED <<n, state, blank_index, nodes, open_set, visited, goal_node,
                   solution, popped, run, prev_len, trace, misplaced, goal_flag>>
    /\ UNCHANGED <<pops, pruning, ioVars>>

\* The program is started again on the same ini.txt.
Rerun ==
    /\ pc \in {"solved", "nosolution"}
    /\ run < MaxRuns
    /\ prev_len' = IF pc = "solved" THEN Len(solution) ELSE -1
    /\ pc' = "main"
    /\ nodes' = <<>>
    /\ open_set' = <<>>
    /\ visited' = visited_init(0)
    /\ goal_node' = 0
    /\ solution' = <<>>
    /\ popped' = 0
    /\ misplaced' = -1
    /\ goal_flag' = "none"
    /\ UNCHANGED <<n, state, blank_index, run, trace>>
    /\ pops' = <<>>
    /\ UNCHANGED <<pruning, ioVars>>

Next == SolveStart \/ Expand \/ FoundGoal \/ NoSolution \/ Rerun

Spec == Init /\ [][Next]_vars

\* solve_puzzle is sequential code: a step that can be taken is taken.  For
\* the steps of the search the weak fairness condition WF_vars(Searching) is
\* written out, with ENABLED <<Searching>>_vars given by the guards of the
\* three actions (a popped node is the goal or it is not).
Searching == SolveStart \/ Expand \/ FoundGoal
SearchingEnabled == pc = "main" \/ (pc = "search" /\ Len(open_set) > 0)
FairSearching == []<>(~SearchingEnabled) \/ []<><<Searching>>_vars
FairSpec == Spec /\ FairSearching /\ WF_vars(NoSolution) /\ WF_vars(Rerun)

(***************************************************************************)
(* apply_move called on a grid again and again, as main does for the moves *)
(* of move.txt and solve_puzzle does for the four moves of a node.  A call *)
(* with a character that is no move takes the default branch.              *)
(***************************************************************************)
MoveChars == MoveSet \cup {"X"}

MoveGrids(m) == IF m \in FullDims THEN ValidGrids(m) ELSE Ball(m)

InitMove ==
    /\ n \in Dims
    /\ state \in MoveGrids(n)
    /\ blank_index = LastBlank(state)
    /\ pc = "moves"
    /\ nodes = <<>>
    /\ open_set = <<>>
    /\ visited = visited_init(0)
    /\ goal_node = 0
    /\ solution = <<>>
    /\ popped = 0
    /\ run = 0
    /\ prev_len = -1
    /\ trace = <<>>
    /\ misplaced = -1
    /\ goal_flag = "none"
    /\ pops = <<>>
    /\ pruning = TRUE
    /\ FilesRead(n, state)

\* One call apply_move(state, n, &blank_index, mv); the trace keeps the
\* arguments and the returned bool.
ApplyMove(mv) ==
    /\ pc = "moves"
    /\ Len(trace) < MaxMoves
    /\ LET r == apply_move(state, n, blank_index, mv)
       IN /\ state' = r.state
          /\ blank_index' = r.blank_index
          /\ trace' = Append(trace, [move |-> mv, ok |-> r.ok, state |-> state,
                                     blank_index |-> blank_index])
    /\ UNCHANGED <<n, pc, nodes, open_set, visited, goal_node, solution, popped,
                   run, prev_len, misplaced, goal_flag>>
    /\ UNCHANGED <<pops, pruning, ioVars>>

NextMove == \E mv \in MoveChars : ApplyMove(mv)

SpecMove == InitMove /\ [][NextMove]_vars

(***************************************************************************)
(* is_goal and count_misplaced on arbitrary arrays of n*n cell values:     *)
(* GoalLayout with up to MaxEdits cells overwritten.                       *)
(***************************************************************************)
\* The blank, tiles, and values on both sides just outside the tile range.
CellValues(m) == {-2, -1, 0, 1, m * m - 2, m * m - 1}

RECURSIVE EditedGrids(_, _)
EditedGrids(m, k) ==
    IF k = 0 THEN {GoalLayout(m)}
    ELSE LET prev == EditedGrids(m, k - 1)
         IN prev \cup {[g EXCEPT ![i] = v] :
                          g \in prev, i \in 0..(m * m - 1), v \in CellValues(m)}

InitGrid ==
    /\ n \in Dims
    /\ state \in EditedGrids(n, MaxEdits)
    /\ blank_index = -1
    /\ pc = "grid"
    /\ nodes = <<>>
    /\ open_set = <<>>
    /\ visited = visited_init(0)
    /\ goal_node = 0
    /\ solution = <<>>
    /\ popped = 0
    /\ run = 0
    /\ prev_len = -1
    /\ trace = <<>>
    /\ misplaced = -1
    /\ goal_flag = "none"
    /\ pops = <<>>
    /\ pruning = TRUE
    /\ FilesRead(n, state)

\* Both functions called on the same array.
Inspect ==
    /\ pc = "grid"
    /\ misplaced' = count_misplaced(state, n * n)
    /\ goal_flag' = IF is_goal(state, n * n) THEN "true" ELSE "false"
    /\ pc' = "inspected"
    /\ UNCHANGED <<n, state, blank_index, nodes, open_set, visited, goal_node,
                   solution, popped, run, prev_len, trace>>
    /\ UNCHANGED <<pops, pruning, ioVars>>

NextGrid == Inspect

SpecGrid == InitGrid /\ [][NextGrid]_vars

(***************************************************************************)
(* main from its start: read_ini, read_moves and the move-file mode.       *)
(* ini.txt is the number atoi reads from its first line and the numbers    *)
(* atoi reads from the tokens of its other lines; move.txt is a sequence   *)
(* of lines, each the sequence of its characters before the newline.       *)
(***************************************************************************)
\* read_ini: the returned bool, the message printed on failure and the
\* out-parameters.
RECURSIVE read_values(_, _, _, _, _)
read_values(values, len, index, st, blank) ==
    IF index >= Len(values) THEN [ok |-> TRUE, index |-> index, state |-> st, blank_index |-> blank]
    ELSE IF index >= len THEN [ok |-> FALSE, index |-> index, state |-> st, blank_index |-> blank]
    ELSE LET value == values[index + 1]
         IN read_values(values, len, index + 1, [st EXCEPT ![index] = value],
                        IF value = -1 THEN index ELSE blank)

read_ini(ini) ==
    LET len == ini.n * ini.n
        r == read_values(ini.values, len, 0, [i \in 0..(len - 1) |-> 0], -1)
        failed(msg) == [ok |-> FALSE, msg |-> msg, n |-> 0, state |-> <<>>, blank_index |-> -1]
    IN IF ini.n <= 0 THEN failed("Invalid puzzle size in ini.txt.")
       ELSE IF ~r.ok THEN failed("Too many values in ini.txt.")
       ELSE IF r.index # len THEN failed("Expected values in ini.txt.")
       ELSE IF r.blank_index = -1 THEN failed("Blank tile (-1) not found in ini.txt.")
       ELSE [ok |-> TRUE, msg |-> "", n |-> ini.n, state |-> r.state,
             blank_index |-> r.blank_index]

\* while (*ptr == ' ' || *ptr == '\t') ptr++;
RECURSIVE skip_blanks(_)
skip_blanks(line) ==
    IF line # <<>> /\ Head(line) \in {" ", "\t"} THEN skip_blanks(Tail(line)) ELSE line

\* The loop of read_moves over the lines of the file.
RECURSIVE read_lines(_, _, _)
read_lines(lines, k, acc) ==
    IF k > Len(lines) THEN acc
    ELSE LET ptr == skip_blanks(lines[k])
         IN IF ptr = <<>> \/ Head(ptr) = "\r" THEN read_lines(lines, k + 1, acc)
            ELSE IF Head(ptr) \in MoveSet THEN read_lines(lines, k + 1, Append(acc, Head(ptr)))
            ELSE read_lines(lines, k + 1, acc)

read_moves(file) ==
    LET acc == IF file.exists THEN read_lines(file.lines, 1, <<>>) ELSE <<>>
    IN [ok |-> Len(acc) > 0, moves |-> acc]

\* The inputs.
\* Well-formed files, and the same with the last value missing, a value too
\* many, or a tile where the blank should be; each under every dimension.
IniGrids(m) ==
    IF m \in Dims THEN {x \in Ball(m) : TrueDist(m, x) <= MaxIniScramble}
    ELSE {GoalLayout(m)}

IniBase == UNION {{IniOf(m, g) : g \in IniGrids(m)} : m \in 1..MaxIniDim}

IniVariants(v) ==
    {v, SubSeq(v, 1, Len(v) - 1), Append(v, 0),
     [i \in 1..Len(v) |-> IF v[i] = -1 THEN Len(v) - 1 ELSE v[i]]}

IniFiles ==
    {[n |-> m, values |-> v] :
        m \in (-1)..MaxIniDim,
        v \in UNION {IniVariants(b.values) : b \in IniBase}}

LineKinds == {<<>>, <<"U">>, <<"D">>, <<"L">>, <<"R">>, <<"#", "R">>, <<" ", "D">>}

MoveFiles ==
    {NoFile} \cup {[exists |-> TRUE, lines |-> l] :
                      l \in UNION {[1..k -> LineKinds] : k \in 0..MaxLines}}

Printed(msg, arg) == [msg |-> msg, arg |-> arg]

InitMain ==
    /\ ini_file \in IniFiles
    /\ move_file = NoFile
    /\ n = 0
    /\ state = <<>>
    /\ blank_index = -1
    /\ pc = "start"
    /\ nodes = <<>>
    /\ open_set = <<>>
    /\ visited = visited_init(0)
    /\ goal_node = 0
    /\ solution = <<>>
    /\ popped = 0
    /\ run = 0
    /\ prev_len = -1
    /\ trace = <<>>
    /\ misplaced = -1
    /\ goal_flag = "none"
    /\ pops = <<>>
    /\ pruning = TRUE
    /\ main_moves = <<>>
    /\ move_index = 0
    /\ output = <<>>
    /\ exit_code = "none"

searchVars == <<nodes, open_set, visited, goal_node, solution, popped, run, prev_len,
                trace, goal_flag, pops, pruning>>

\* if (!read_ini("ini.txt", &state, &n, &blank_index)) return EXIT_FAILURE;
ReadIni ==
    /\ pc = "start"
    /\ LET r == read_ini(ini_file)
       IN IF r.ok
          THEN /\ n' = r.n
               /\ state' = r.state
               /\ blank_index' = r.blank_index
               /\ pc' = "read_moves"
               /\ UNCHANGED <<output, exit_code>>
          ELSE /\ output' = Append(output, Printed(r.msg, 0))
               /\ exit_code' = "EXIT_FAILURE"
               /\ pc' = "exit"
               /\ UNCHANGED <<n, state, blank_index>>
    /\ UNCHANGED <<searchVars, misplaced, ini_file, move_file, main_moves, move_index>>

\* read_moves("move.txt", &moves, &move_count), on whatever move.txt holds;
\* when it returns false main turns to solve_puzzle.
ReadMoves ==
    /\ pc = "read_moves"
    /\ \E f \in MoveFiles :
          LET r == read_moves(f)
          IN /\ move_file' = f
             /\ main_moves' = r.moves
             /\ IF r.ok
                THEN /\ pc' = "apply"
                     /\ UNCHANGED <<output, misplaced>>
                ELSE /\ pc' = "solve"
                     /\ misplaced' = count_misplaced(state, n * n)
                     /\ output' = output \o
                           <<Printed("move.txt empty or missing. Solving with A* search...", 0),
                             Printed("Initial tiles out of place:", misplaced')>>
    /\ UNCHANGED <<searchVars, n, state, blank_index, ini_file, move_index, exit_code>>

\* One iteration of the loop over moves[i] in main.
ApplyFileMove ==
    /\ pc = "apply"
    /\ move_index < Len(main_moves)
    /\ LET r == apply_move(state, n, blank_index, main_moves[move_index + 1])
       IN IF r.ok
          THEN /\ state' = r.state
               /\ blank_index' = r.blank_index
               /\ move_index' = move_index + 1
               /\ UNCHANGED <<pc, output, exit_code>>
          ELSE /\ output' = Append(output, Printed("Invalid move at line", move_index + 1))
               /\ exit_code' = "EXIT_FAILURE"
               /\ pc' = "exit"
               /\ UNCHANGED <<state, blank_index, move_index>>
    /\ UNCHANGED <<searchVars, n, misplaced, ini_file, move_file, main_moves>>

\* After the loop: the final state and its misplaced count are printed.
PrintFinal ==
    /\ pc = "apply"
    /\ move_index = Len(main_moves)
    /\ misplaced' = count_misplaced(state, n * n)
    /\ output' = output \o <<Printed("Final state after applying move.txt:", 0),
                             Printed("Tiles out of place:", misplaced')>>
    /\ exit_code' = "EXIT_SUCCESS"
    /\ pc' = "exit"
    /\ UNCHANGED <<searchVars, n, state, blank_index, ini_file, move_file, main_moves,
                   move_index>>

NextMain == ReadIni \/ ReadMoves \/ ApplyFileMove \/ PrintFinal

SpecMain == InitMain /\ [][NextMain]_vars

(***************************************************************************)
(* The visited table on its own, called as the move loop of solve_puzzle   *)
(* calls it: visited_should_skip, then visited_add unless it said skip.    *)
(* The hash is the caller's argument; here it comes from HashOf, which     *)
(* gives two of the grids the same hash and the third a different hash in  *)
(* the same bucket.                                                        *)
(***************************************************************************)
VisitGrids ==
    <<GoalLayout(2),
      apply_move(GoalLayout(2), 2, 3, "U").state,
      apply_move(GoalLayout(2), 2, 3, "L").state>>

HashOf(st) ==
    IF st = VisitGrids[3] THEN U64(1 + VisitedBuckets) ELSE U64(1)

InitVisited ==
    /\ n = 2
    /\ state = GoalLayout(2)
    /\ blank_index = LastBlank(state)
    /\ pc = "visited"
    /\ nodes = <<>>
    /\ open_set = <<>>
    /\ visited = visited_init(VisitedBuckets)
    /\ goal_node = 0
    /\ solution = <<>>
    /\ popped = 0
    /\ run = 0
    /\ prev_len = -1
    /\ trace = <<>>
    /\ misplaced = -1
    /\ goal_flag = "none"
    /\ pops = <<>>
    /\ pruning = TRUE
    /\ FilesRead(n, state)

\* Lines 552-563 of solve_puzzle for one successor st reached with cost g.
\* The trace keeps the arguments, the table before the call, the returned
\* bool and the table visited_should_skip left.
Visit(st, g) ==
    /\ pc = "visited"
    /\ Len(trace) < MaxVisits
    /\ LET hash == HashOf(st)
           v == visited_should_skip(visited, hash, st, n * n, g)
       IN /\ visited' = IF v.skip THEN v.set
                        ELSE visited_add(v.set, hash, st, n * n, g)
          /\ trace' = Append(trace, [hash |-> hash, state |-> st, g |-> g,
                                     skip |-> v.skip, before |-> visited,
                                     after |-> v.set])
    /\ UNCHANGED <<n, state, blank_index, pc, nodes, open_set, goal_node, solution,
                   popped, run, prev_len, misplaced, goal_flag, pops, pruning, ioVars>>

NextVisited == \E k \in 1..Len(VisitGrids), g \in 0..MaxG : Visit(VisitGrids[k], g)

SpecVisited == InitVisited /\ [][NextVisited]_vars

(***************************************************************************)
(* The frontier heap on its own: nodes with arbitrary g and h are created  *)
(* and pushed, and nodes are popped, in any order.                         *)
(***************************************************************************)
\* The <<g, h>> of the nodes pushed: equal f with different h, and equal keys.
HeapKeys == {<<0, 1>>, <<1, 0>>, <<0, 2>>, <<1, 1>>, <<2, 0>>}

InitHeap ==
    /\ n = 2
    /\ state = GoalLayout(2)
    /\ blank_index = LastBlank(state)
    /\ pc = "heap"
    /\ nodes = <<>>
    /\ open_set = <<>>
    /\ visited = visited_init(0)
    /\ goal_node = 0
    /\ solution = <<>>
    /\ popped = 0
    /\ run = 0
    /\ prev_len = -1
    /\ trace = <<>>
    /\ misplaced = -1
    /\ goal_flag = "none"
    /\ pops = <<>>
    /\ pruning = TRUE
    /\ FilesRead(n, state)

\* create_node, node_list_push and heap_push of a node with the given g, h.
\* In this specification the trace holds the last call only: its name, the
\* node pushed or returned, and the heap before it.
Push(g, h) ==
    /\ pc = "heap"
    /\ Len(nodes) < MaxHeapNodes
    /\ nodes' = Append(nodes, create_node(state, n * n, blank_index, g, h, 0, NUL))
    /\ open_set' = heap_push(open_set, Len(nodes'), nodes')
    /\ trace' = <<[op |-> "heap_push", node |-> Len(nodes'), before |-> open_set]>>
    /\ UNCHANGED <<n, state, blank_index, pc, visited, goal_node, solution, popped,
                   run, prev_len, misplaced, goal_flag, pops, pruning, ioVars>>

\* heap_pop, on an empty heap too.
Pop ==
    /\ pc = "heap"
    /\ LET p == heap_pop(open_set, nodes)
       IN /\ open_set' = p.data
          /\ pops' = IF p.top = 0 THEN pops ELSE Append(pops, p.top)
          /\ trace' = <<[op |-> "heap_pop", node |-> p.top, before |-> open_set]>>
    /\ UNCHANGED <<n, state, blank_index, pc, nodes, visited, goal_node, solution,
                   popped, run, prev_len, misplaced, goal_flag, pruning, ioVars>>

NextHeap == (\E key \in HeapKeys : Push(key[1], key[2])) \/ Pop

SpecHeap == InitHeap /\ [][NextHeap]_vars

(***************************************************************************)
(* solve_puzzle, and then the same search on the same grid with the test   *)
(* of opposite_move (lines 537-539) left out.                              *)
(***************************************************************************)
RerunUnpruned ==
    /\ pc \in {"solved", "nosolution"}
    /\ pruning
    /\ pruning' = FALSE
    /\ prev_len' = IF pc = "solved" THEN Len(solution) ELSE -1
    /\ pc' = "main"
    /\ nodes' = <<>>
    /\ open_set' = <<>>
    /\ visited' = visited_init(0)
    /\ goal_node' = 0
    /\ solution' = <<>>
    /\ popped' = 0
    /\ misplaced' = -1
    /\ goal_flag' = "none"
    /\ pops' = <<>>
    /\ UNCHANGED <<n, state, blank_index, run, trace, ioVars>>

NextPrune == SolveStart \/ Expand \/ FoundGoal \/ NoSolution \/ RerunUnpruned

SpecPrune == Init /\ [][NextPrune]_vars

(***************************************************************************)
(* The program in solving mode on the start grids of Spec and on three     *)
(* 3x3 grids 12 and 13 moves from the goal, on which the search finds a    *)
(* cheaper path to a grid it has recorded already.                         *)
(***************************************************************************)
GridOf(cells) == [i \in 0..(Len(cells) - 1) |-> cells[i + 1]]

DeepGrids(m) ==
    IF m = 3
    THEN {GridOf(<<0, 5, -1, 3, 2, 4, 6, 7, 1>>),
          GridOf(<<0, -1, 7, 3, 5, 1, 6, 4, 2>>),
          GridOf(<<0, 7, 2, -1, 3, 4, 6, 5, 1>>)}
    ELSE {}

InitDeep ==
    /\ n \in Dims
    /\ state \in StartGrids(n) \cup DeepGrids(n)
    /\ blank_index = LastBlank(state)
    /\ pc = "main"
    /\ nodes = <<>>
    /\ open_set = <<>>
    /\ visited = visited_init(0)
    /\ goal_node = 0
    /\ solution = <<>>
    /\ popped = 0
    /\ run = 0
    /\ prev_len = -1
    /\ trace = <<>>
    /\ misplaced = -1
    /\ goal_flag = "none"
    /\ pops = <<>>
    /\ pruning = TRUE
    /\ FilesRead(n, state)

SpecDeep == InitDeep /\ [][Next]_vars

(***************************************************************************)
(* Both uses of apply_move: the program run on a grid as a sequence of     *)
(* moves (SpecMove) or in solving mode (Spec).                             *)
(***************************************************************************)
InitEither == Init \/ InitMove

NextEither == Next \/ NextMove

SpecEither == InitEither /\ [][NextEither]_vars

(***************************************************************************)
(* Properties of the search.                                               *)
(***************************************************************************)
Done == {"solved", "nosolution"}

\* The moves of a sequence applied one after the other with apply_move, from
\* position i on: whether all succeeded, and the grid reached.
RECURSIVE Replay(_, _, _, _, _)
Replay(st, m, blank, moves, i) ==
    IF i > Len(moves) THEN [ok |-> TRUE, state |-> st]
    ELSE LET r == apply_move(st, m, blank, moves[i])
         IN IF r.ok THEN Replay(r.state, m, r.blank_index, moves, i + 1)
            ELSE [ok |-> FALSE, state |-> st]

\* C1: for every solvable start grid solve_puzzle ends with a goal node and
\* the number of moves it reports is the shortest-path distance from the
\* start grid to GoalLayout (so it never ends without a solution there); a
\* start grid one Right-move away from the goal yields the solution <<R>>.
C1_ShortestSolution ==
    /\ pc = "solved" =>
          /\ nodes[goal_node].state = GoalLayout(n)
          /\ Solvable(n, state)
          /\ Len(solution) = TrueDist(n, state)
    /\ pc = "nosolution" => ~Solvable(n, state)
    /\ (pc = "solved" /\ apply_move(state, n, blank_index, "R").ok
           /\ apply_move(state, n, blank_index, "R").state = GoalLayout(n))
          => solution = <<"R">>

C1_Witness ==
    /\ pc = "solved"
    /\ n = 3
    /\ TrueDist(n, state) >= 5
    /\ Len(solution) = TrueDist(n, state)

\* C2: the reported sequence is in start-to-goal order: replayed with
\* apply_move on the start grid every move is legal and the grid reached is
\* GoalLayout; it has goal_node.g moves, and none (with misplaced count 0)
\* when the start grid is GoalLayout already.
C2_ReplayReachesGoal ==
    pc = "solved" =>
        LET r == Replay(state, n, blank_index, solution, 1)
        IN /\ r.ok
           /\ r.state = GoalLayout(n)
           /\ Len(solution) = nodes[goal_node].g
           /\ state = GoalLayout(n) => (solution = <<>> /\ misplaced = 0)

C2_Witness ==
    /\ pc = "solved"
    /\ n = 3
    /\ Len(solution) >= 4
    /\ \E i \in 1..Len(solution) : solution[i] # solution[Len(solution) + 1 - i]
    /\ Replay(state, n, blank_index, solution, 1).state = GoalLayout(n)

\* C3: started on any valid grid the loop of solve_puzzle terminates, with a
\* goal node popped or with the frontier empty ("No solution found"); on an
\* unsolvable start grid it never reports a solution and does end with no
\* solution found.
C3_Terminates ==
    /\ <>[](pc \in Done)
    /\ [](~Solvable(n, state) => pc # "solved")
    /\ [](~Solvable(n, state) => <>(pc = "nosolution"))

C3_Witness ==
    /\ pc = "nosolution"
    /\ ~Solvable(n, state)
    /\ state = [GoalLayout(n) EXCEPT ![0] = 1, ![1] = 0]
    /\ popped >= 12
    /\ open_set = <<>>

\* C4: when the start grid fails the solvability parity test the program
\* reports failure at once: no node is popped from the frontier and no
\* successor is generated.
C4_FailsBeforeSearching ==
    ~solvability(state, n, blank_index) => (popped = 0 /\ Len(nodes) <= 1)

\* C8: manhattan_distance never exceeds the shortest-path distance to
\* GoalLayout, on the start grid and on the grid of every node created, so a
\* node on a shortest path has g + h no greater than the optimal length.
C8_Admissible ==
    /\ Solvable(n, state) => manhattan_distance(state, n) <= TrueDist(n, state)
    /\ \A k \in 1..Len(nodes) :
          Solvable(n, nodes[k].state) =>
              /\ nodes[k].h = manhattan_distance(nodes[k].state, n)
              /\ nodes[k].h <= TrueDist(n, nodes[k].state)
              /\ (Solvable(n, state)
                  /\ nodes[k].g + TrueDist(n, nodes[k].state) = TrueDist(n, state))
                     => nodes[k].g + nodes[k].h <= TrueDist(n, state)

C8_Witness ==
    /\ pc = "search"
    /\ n = 3
    /\ TrueDist(n, state) >= 5
    /\ \E k \in 1..Len(nodes) :
          /\ nodes[k].g >= 2
          /\ Solvable(n, nodes[k].state)
          /\ nodes[k].g + TrueDist(n, nodes[k].state) = TrueDist(n, state)
          /\ nodes[k].h < TrueDist(n, nodes[k].state)

StateAfter(i) == IF i = Len(trace) THEN state ELSE trace[i + 1].state
BlankAfter(i) == IF i = Len(trace) THEN blank_index ELSE trace[i + 1].blank_index

\* Row and column steps of the four moves.
RowStep(mv) == CASE mv = "U" -> -1 [] mv = "D" -> 1 [] OTHER -> 0
ColStep(mv) == CASE mv = "L" -> -1 [] mv = "R" -> 1 [] OTHER -> 0
TargetRow(i) == (trace[i].blank_index \div n) + RowStep(trace[i].move)
TargetCol(i) == (trace[i].blank_index % n) + ColStep(trace[i].move)
TargetInside(i) ==
    /\ TargetRow(i) >= 0 /\ TargetRow(i) < n
    /\ TargetCol(i) >= 0 /\ TargetCol(i) < n
TargetIndex(i) == TargetRow(i) * n + TargetCol(i)

\* C5: a successful apply_move of m followed by apply_move of
\* opposite_move(m) succeeds too and restores the grid and blank_index.
C5_InverseRestores ==
    \A i \in 1..(Len(trace) - 1) :
        (/\ trace[i].move \in MoveSet
         /\ trace[i].ok
         /\ trace[i + 1].move = opposite_move(trace[i].move))
        => /\ trace[i + 1].ok
           /\ StateAfter(i + 1) = trace[i].state
           /\ BlankAfter(i + 1) = trace[i].blank_index

C5_Witness ==
    /\ n = 3
    /\ Len(trace) = 2
    /\ trace[1].move = "L"
    /\ trace[1].ok
    /\ trace[2].move = "R"
    /\ trace[2].ok
    /\ state = trace[1].state
    /\ state # trace[2].state

\* C6: apply_move of a move returns false, leaving grid and blank_index as
\* they were, exactly when the blank's target row or column is outside
\* 0..n-1; when it returns true the old blank cell and the target cell have
\* exchanged their contents, no other cell has changed and blank_index is the
\* target index.
C6_MoveEffect ==
    \A i \in 1..Len(trace) :
        trace[i].move \in MoveSet =>
            LET before == trace[i].state
                after == StateAfter(i)
                blank == trace[i].blank_index
                target == TargetIndex(i)
            IN /\ trace[i].ok <=> TargetInside(i)
               /\ ~trace[i].ok => (after = before /\ BlankAfter(i) = blank)
               /\ trace[i].ok =>
                     /\ BlankAfter(i) = target
                     /\ after[target] = before[blank]
                     /\ after[blank] = before[target]
                     /\ \A c \in DOMAIN before :
                           c \notin {blank, target} => after[c] = before[c]

C6_Witness ==
    /\ n = 3
    /\ Len(trace) = 2
    /\ trace[1].move = "R"
    /\ trace[1].blank_index = 2
    /\ ~trace[1].ok
    /\ trace[2].move = "D"
    /\ trace[2].ok
    /\ blank_index = 5
    /\ state # trace[2].state

\* The distance of tile v standing in cell idx from its goal cell.
TileDistance(v, idx) == abs((v \div n) - (idx \div n)) + abs((v % n) - (idx % n))

\* C7: manhattan_distance is 0 on GoalLayout and never negative, and every
\* successful apply_move changes it by exactly 1: down when the slid tile
\* gets closer to its goal cell, up otherwise.
C7_HeuristicStep ==
    /\ state = GoalLayout(n) => manhattan_distance(state, n) = 0
    /\ manhattan_distance(state, n) >= 0
    /\ \A i \in 1..Len(trace) :
          trace[i].ok =>
              LET before == manhattan_distance(trace[i].state, n)
                  after == manhattan_distance(StateAfter(i), n)
                  tile == trace[i].state[BlankAfter(i)]
                  closer == TileDistance(tile, trace[i].blank_index)
                               < TileDistance(tile, BlankAfter(i))
              IN /\ after - before \in {1, -1}
                 /\ after - before = -1 <=> closer

C7_Witness ==
    /\ n = 3
    /\ Len(trace) = 2
    /\ trace[1].ok
    /\ trace[2].ok
    /\ manhattan_distance(trace[1].state, n) = 0
    /\ manhattan_distance(trace[2].state, n) = 1
    /\ manhattan_distance(state, n) = 2

\* C9: on every array of n*n cell values is_goal returns true if and only
\* if count_misplaced returns 0.
C9_GoalIffNoneMisplaced ==
    pc = "inspected" => (goal_flag = "true" <=> misplaced = 0)

C9_Witness ==
    /\ pc = "inspected"
    /\ n = 3
    /\ state[n * n - 1] = n * n - 1
    /\ \A i \in 0..(n * n - 2) : state[i] = i
    /\ goal_flag = "false"
    /\ misplaced = 1

(***************************************************************************)
(* Properties of main's input handling.                                    *)
(***************************************************************************)
\* The 1-based numbers of the lines of move.txt that hold a move, in order.
RECURSIVE MoveLineNumbers(_, _)
MoveLineNumbers(lines, k) ==
    IF k > Len(lines) THEN <<>>
    ELSE LET rest == MoveLineNumbers(lines, k + 1)
             first == SelectSeq(lines[k], LAMBDA c : c \notin {" ", "\t"})
         IN IF first # <<>> /\ first[1] \in MoveSet THEN <<k>> \o rest ELSE rest

InvalidMoveReported == output # <<>> /\ output[Len(output)].msg = "Invalid move at line"

\* C11: when a move of move.txt is illegal in the grid reached by the moves
\* before it, the program reports the 1-based number of that move's line in
\* the file (blank and unrecognized lines count as lines), applies no further
\* move, and exits with failure without printing a final grid.
C11_ReportsFileLine ==
    (pc = "exit" /\ InvalidMoveReported) =>
        /\ output[Len(output)].arg = MoveLineNumbers(move_file.lines, 1)[move_index + 1]
        /\ ~apply_move(state, n, blank_index, main_moves[move_index + 1]).ok
        /\ exit_code = "EXIT_FAILURE"
        /\ \A k \in 1..Len(output) : output[k].msg # "Final state after applying move.txt:"

\* C12: a puzzle description whose dimension is <= 1, whose number of values
\* is not n*n, or that holds no blank is rejected: main exits with failure
\* after read_ini and no grid reaches read_moves, apply_move or the search.
C12_RejectsMalformed ==
    (/\ pc # "start"
     /\ \/ ini_file.n <= 1
        \/ Len(ini_file.values) # ini_file.n * ini_file.n
        \/ \A i \in 1..Len(ini_file.values) : ini_file.values[i] # -1)
    => /\ pc = "exit"
       /\ exit_code = "EXIT_FAILURE"
       /\ state = <<>>
       /\ main_moves = <<>>

(***************************************************************************)
(* Properties of the visited table.                                        *)
(***************************************************************************)
\* The places <<bucket, position>> of the entries of a table.
Places(set) ==
    UNION {{<<b, k>> : k \in 1..Len(set.buckets[b])} : b \in DOMAIN set.buckets}
EntryAt(set, pl) == set.buckets[pl[1]][pl[2]]

\* C13: visited_should_skip returns true exactly when the table holds an
\* entry whose grid equals the argument cell for cell with recorded g' <= g,
\* and then leaves the table as it was; when equal grids are recorded only
\* with g' > g it lowers a recorded cost to g, touches nothing else and
\* returns false; when no equal grid is recorded it returns false and changes
\* nothing.  Entries of other grids, whatever their hash or bucket, play no
\* part.
C13_SkipsOnEqualGrid ==
    \A i \in 1..Len(trace) :
        LET e == trace[i]
            equal == {pl \in Places(e.before) : EntryAt(e.before, pl).state = e.state}
        IN /\ e.skip <=> \E pl \in equal : EntryAt(e.before, pl).g <= e.g
           /\ e.skip => e.after = e.before
           /\ equal = {} => (~e.skip /\ e.after = e.before)
           /\ (~e.skip /\ equal # {}) =>
                 /\ Places(e.after) = Places(e.before)
                 /\ \E pl \in equal : EntryAt(e.after, pl).g = e.g
                 /\ \A pl \in Places(e.before) :
                       \/ EntryAt(e.after, pl) = EntryAt(e.before, pl)
                       \/ /\ pl \in equal
                          /\ EntryAt(e.after, pl) = [EntryAt(e.before, pl) EXCEPT !.g = e.g]

C13_Witness ==
    /\ pc = "visited"
    /\ \E i \in 1..Len(trace) :
          LET e == trace[i]
          IN /\ ~e.skip
             /\ e.after # e.before
             /\ \E pl \in Places(e.before) :
                   /\ EntryAt(e.before, pl).hash = e.hash
                   /\ EntryAt(e.before, pl).state # e.state
                   /\ EntryAt(e.before, pl).g <= e.g
             /\ \E pl \in Places(e.before) :
                   /\ EntryAt(e.before, pl).hash # e.hash
                   /\ pl[1] = U64Mod(e.hash, e.before.bucket_count)

(***************************************************************************)
(* Properties of the frontier heap.                                        *)
(***************************************************************************)
\* Node a is strictly smaller than node b under the key (g + h, then h).
KeyLess(a, b) == a.g + a.h < b.g + b.h \/ (a.g + a.h = b.g + b.h /\ a.h < b.h)

\* The nodes of a heap array as a bag.
BagOfSeq(data) == [x \in {data[k] : k \in 1..Len(data)} |->
                      Cardinality({k \in 1..Len(data) : data[k] = x})]

\* C14: after any sequence of heap_push and heap_pop calls no element of the
\* frontier array is strictly smaller, under the key (g + h, then h), than
\* its parent; heap_pop returns a node whose key is minimal among the nodes
\* in the frontier and removes exactly that node, and returns NULL on an
\* empty frontier; the nodes stored are the nodes pushed less the nodes
\* popped.
C14_HeapOrder ==
    /\ \A idx \in 1..(Len(open_set) - 1) :
          ~KeyLess(nodes[open_set[idx + 1]], nodes[open_set[((idx - 1) \div 2) + 1]])
    /\ BagOfSeq(open_set) =
          [x \in (1..Len(nodes)) \ {pops[k] : k \in 1..Len(pops)} |-> 1]
    /\ \A k, l \in 1..Len(pops) : pops[k] = pops[l] => k = l
    /\ (trace # <<>> /\ trace[1].op = "heap_pop") =>
          LET before == trace[1].before
              top == trace[1].node
          IN IF before = <<>> THEN top = 0 /\ open_set = <<>>
             ELSE /\ top = before[1]
                  /\ \A k \in 1..Len(before) : ~KeyLess(nodes[before[k]], nodes[top])
                  /\ BagOfSeq(before) = BagOfSeq(open_set \o <<top>>)
    /\ (trace # <<>> /\ trace[1].op = "heap_push") =>
          BagOfSeq(open_set) = BagOfSeq(trace[1].before \o <<trace[1].node>>)

C14_Witness ==
    /\ pc = "heap"
    /\ Len(nodes) = 4
    /\ Len(pops) = 2
    /\ Len(open_set) = 2
    /\ trace[1].op = "heap_pop"
    /\ Len(trace[1].before) = 3
    /\ nodes[pops[1]].g + nodes[pops[1]].h = nodes[pops[2]].g + nodes[pops[2]].h
    /\ nodes[pops[1]].h < nodes[pops[2]].h
    /\ pops[1] > pops[2]

(***************************************************************************)
(* Properties of the grids.                                                *)
(***************************************************************************)
\* Exactly one blank, and the tiles 0..m*m-2 once each.
IsPermutation(st, m) ==
    /\ DOMAIN st = 0..(m * m - 1)
    /\ Cardinality({i \in DOMAIN st : st[i] = -1}) = 1
    /\ \A v \in 0..(m * m - 2) : Cardinality({i \in DOMAIN st : st[i] = v}) = 1

\* C15: from a grid with one blank and the tiles 0..n*n-2, after any sequence
\* of apply_move calls, successful or failed, and in every node created by
\* solve_puzzle, the grid has one blank and the same tiles, and the
\* blank_index kept with it is the index of the blank.
C15_GridsStayPermutations ==
    /\ IsPermutation(state, n)
    /\ state[blank_index] = -1
    /\ \A k \in 1..Len(nodes) :
          /\ IsPermutation(nodes[k].state, n)
          /\ nodes[k].state[nodes[k].blank_index] = -1
    /\ \A i \in 1..Len(trace) :
          /\ IsPermutation(trace[i].state, n)
          /\ trace[i].state[trace[i].blank_index] = -1

C15_Witness ==
    /\ n = 3
    /\ \/ /\ pc = "moves"
          /\ Len(trace) = 3
          /\ trace[1].ok /\ ~trace[2].ok /\ trace[3].ok
          /\ state # trace[1].state
       \/ /\ pc = "solved"
          /\ Len(nodes) >= 10
          /\ nodes[goal_node].g >= 4
    /\ IsPermutation(state, n)

(***************************************************************************)
(* Properties of the nodes and the frontier during the search.             *)
(***************************************************************************)
\* Up and Down, Left and Right undo each other.
Inverse(mv) == CASE mv = "U" -> "D" [] mv = "D" -> "U" [] mv = "L" -> "R" [] mv = "R" -> "L"

\* C16: solve_puzzle never creates, under a node that has a parent, the
\* successor by the inverse of the move that produced that node, while the
\* root tries all four moves; and the pruning costs nothing: on every start
\* grid the same search without it ends the same way with a solution of the
\* same length.
C16_PruningKeepsOptimum ==
    /\ pruning =>
          \A k \in 1..Len(nodes) :
              (nodes[k].parent # 0 /\ nodes[nodes[k].parent].parent # 0)
                  => nodes[k].move # Inverse(nodes[nodes[k].parent].move)
    /\ (pruning /\ Len(pops) >= 1 /\ state # GoalLayout(n)) =>
          \A mv \in MoveSet :
              apply_move(state, n, blank_index, mv).ok
                  => \E k \in 1..Len(nodes) : nodes[k].parent = 1 /\ nodes[k].move = mv
    /\ (~pruning /\ pc = "solved") => Len(solution) = prev_len
    /\ (~pruning /\ pc = "nosolution") => prev_len = -1

C16_Witness ==
    /\ ~pruning
    /\ pc = "solved"
    /\ n = 3
    /\ Len(solution) >= 6
    /\ Len(solution) = prev_len
    /\ \E k \in 1..Len(nodes) : nodes[k].parent = 1 /\ nodes[k].move = "U"
    /\ \E k \in 1..Len(nodes) : nodes[k].parent = 1 /\ nodes[k].move = "L"

\* The g values of the nodes created so far for grid st.
NodeCosts(st) == {nodes[k].g : k \in {j \in 1..Len(nodes) : nodes[j].state = st}}

\* C17: at every point of a run the visited table holds at most one entry
\* per grid, and the g recorded for a grid is the least g of the nodes
\* created so far for that grid: a cheaper path to a recorded grid updates
\* its entry and adds no second one.
C17_OneEntryPerGrid ==
    /\ \A p1, p2 \in Places(visited) :
          EntryAt(visited, p1).state = EntryAt(visited, p2).state => p1 = p2
    /\ \A pl \in Places(visited) :
          LET costs == NodeCosts(EntryAt(visited, pl).state)
          IN /\ EntryAt(visited, pl).g \in costs
             /\ \A g \in costs : EntryAt(visited, pl).g <= g

\* The number of parent links from node k to the root.
RECURSIVE ChainLength(_)
ChainLength(k) == IF nodes[k].parent = 0 THEN 0 ELSE 1 + ChainLength(nodes[k].parent)

\* C18: the root has g = 0 and no parent; every other node has g one more
\* than its parent's, its grid is the parent's grid after a successful
\* apply_move of its move, and every node's h is manhattan_distance of its
\* own grid.  So the parent chain of a node has g links, and
\* reconstruct_moves writes goal_node.g moves, within its g + 1 entries.
C18_NodeChain ==
    /\ \A k \in 1..Len(nodes) :
          /\ nodes[k].h = manhattan_distance(nodes[k].state, n)
          /\ ChainLength(k) = nodes[k].g
          /\ IF k = 1
             THEN /\ nodes[k].g = 0
                  /\ nodes[k].parent = 0
                  /\ nodes[k].state = state
             ELSE LET p == nodes[k].parent
                      r == apply_move(nodes[p].state, n, nodes[p].blank_index, nodes[k].move)
                  IN /\ p \in 1..(k - 1)
                     /\ nodes[k].g = nodes[p].g + 1
                     /\ r.ok
                     /\ nodes[k].state = r.state
                     /\ nodes[k].blank_index = r.blank_index
    /\ pc = "solved" =>
          /\ Len(collect_moves(goal_node, nodes)) = nodes[goal_node].g
          /\ Len(solution) = nodes[goal_node].g
          /\ Len(solution) < nodes[goal_node].g + 1

C18_Witness ==
    /\ pc = "solved"
    /\ n = 3
    /\ nodes[goal_node].g >= 6
    /\ ChainLength(goal_node) = nodes[goal_node].g
    /\ nodes[nodes[goal_node].parent].g = nodes[goal_node].g - 1
    /\ Len(nodes) >= 12

\* The least number of legal moves from a grid of the frontier to GoalLayout,
\* by breadth-first search from the grids d moves away from the start; -1 if
\* there is no way.
RECURSIVE BreadthFirst(_, _, _, _)
BreadthFirst(m, frontier, seen, d) ==
    IF GoalLayout(m) \in frontier THEN d
    ELSE IF frontier = {} THEN -1
    ELSE LET next == UNION {Neighbours(g, m) : g \in frontier} \ seen
         IN BreadthFirst(m, next, seen \cup next, d + 1)

ShortestFrom(st, m) == BreadthFirst(m, {st}, {st}, 0)

PoppedF(i) == nodes[pops[i]].g + nodes[pops[i]].h

\* C19: the f = g + h of the nodes popped during a run never decreases, so
\* the first goal node popped has the least g of the goal nodes ever put in
\* the frontier; nodes whose g has been superseded are still popped and
\* expanded, and the solution reported is no longer than the shortest.
C19_PoppedFNeverDecreases ==
    /\ \A i \in 1..(Len(pops) - 1) : PoppedF(i) <= PoppedF(i + 1)
    /\ pc = "solved" =>
          /\ \A k \in 1..Len(nodes) :
                nodes[k].state = GoalLayout(n) => nodes[goal_node].g <= nodes[k].g
          /\ Len(solution) = ShortestFrom(state, n)

\* A solved run in which a node that is not the goal was popped, and so
\* expanded, after a node with the same grid and a smaller g had been created.
C19_Witness ==
    /\ pc = "solved"
    /\ n = 3
    /\ Len(solution) = ShortestFrom(state, n)
    /\ \E i \in 1..Len(pops) : \E j \in 1..(i - 1) : \E k \in 1..Len(nodes) :
          /\ nodes[k].parent = pops[j]
          /\ nodes[k].state = nodes[pops[i]].state
          /\ nodes[k].g < nodes[pops[i]].g
          /\ nodes[pops[i]].state # GoalLayout(n)
====
